---- MODULE Spec2Model ----
(***************************************************************************)
(* djmoney.money: the Money value type (amount, currency, decimal_places,  *)
(* format_options), its operators and the helpers get_current_locale and   *)
(* maybe_convert.                                                          *)
(*                                                                         *)
(* Two named live objects, a and b, are the operands.  Every operator of   *)
(* the class is one action: it reads its operands, may write the           *)
(* attributes of the object it returns (which is self when the base type   *)
(* returns self) and leaves its outcome in `last`.  The caller then either *)
(* drops the outcome (Return) or binds the name of self to the Money       *)
(* returned (Bind), which chains operations.                               *)
(***************************************************************************)
EXTENDS Integers, FiniteSets, Sequences, TLC

VARIABLES
    DECIMAL_PLACES, \* djmoney.settings.DECIMAL_PLACES, fixed at import
    objs,           \* name -> Money object (the live instances)
    d,              \* content of the caller's dict passed as format_options
    last,           \* the last call: operator, operands, outcome, services called
    depth           \* number of rebinding steps so far

vars == <<DECIMAL_PLACES, objs, d, last, depth>>

-----------------------------------------------------------------------------
(* Bounds and input sets *)

MaxChain == 1

Names == {"a", "b"}

DefaultPlaces == {2, 3}

None == {}

Some(v) == {v}

TheValue(o) == CHOOSE v \in o : TRUE

-----------------------------------------------------------------------------
(* decimal.Decimal: c * 10^(-s), s >= 0 *)

Dec(c, s) == [c |-> c, s |-> s]

RECURSIVE Pow10(_)
Pow10(n) == IF n = 0 THEN 1 ELSE 10 * Pow10(n - 1)

AbsInt(n) == IF n < 0 THEN -n ELSE n

MaxInt(S) == CHOOSE m \in S : \A n \in S : n <= m

DecAdd(x, y) ==
    LET s == IF x.s >= y.s THEN x.s ELSE y.s
    IN  Dec(x.c * Pow10(s - x.s) + y.c * Pow10(s - y.s), s)

DecNeg(x) == Dec(-x.c, x.s)

DecAbs(x) == Dec(AbsInt(x.c), x.s)

DecMul(x, y) == Dec(x.c * y.c, x.s + y.s)

\* x / n for an integer n > 0 whose quotient is exact: the exponent closest
\* to the ideal one (that of x) at which the coefficient is an integer.
DecDivInt(x, n) ==
    LET k == CHOOSE k \in 0..4 :
                 /\ (x.c * Pow10(k)) % n = 0
                 /\ \A j \in 0..(k - 1) : (x.c * Pow10(j)) % n # 0
    IN  Dec((x.c * Pow10(k)) \div n, x.s + k)

\* Decimal.quantize(exp, rounding) where exp has s decimal places.
DecQuantize(x, s, rounding) ==
    IF s >= x.s
    THEN Dec(x.c * Pow10(s - x.s), s)
    ELSE LET k   == Pow10(x.s - s)
             mag == AbsInt(x.c)
             q   == mag \div k
             r   == mag % k
             up  == CASE rounding = "ROUND_HALF_UP"   -> 2 * r >= k
                      [] rounding = "ROUND_HALF_EVEN" ->
                             2 * r > k \/ (2 * r = k /\ q % 2 = 1)
                      [] OTHER -> FALSE \* ROUND_DOWN
             m   == IF up THEN q + 1 ELSE q
         IN  Dec(IF x.c < 0 THEN -m ELSE m, s)

-----------------------------------------------------------------------------
(* Values handed to and returned by the operators *)

Currency(code) == [type |-> "Currency", code |-> code]

CodeStr(code) == [type |-> "str", code |-> code]

OpMoney(m) == [kind |-> "Money", obj |-> m]

OpNum(x) == [kind |-> "num", val |-> x]

OpF == [kind |-> "F"]

NoOperand == [kind |-> "none"]

RetMoney(m, is_self) == [kind |-> "Money", obj |-> m, is_self |-> is_self]

RetRaise(exc) == [kind |-> "raise", exc |-> exc]

RetExpr(method, arg) == [kind |-> "Expr", method |-> method, arg |-> arg]

RetDecimal(num, den) == [kind |-> "Decimal", num |-> num, den |-> den]

RetNotImplemented == [kind |-> "NotImplemented"]

\* What one call did: the value returned, self after the call, the services
\* called in order, and the operand handed on by maybe_convert.
Outcome(ret, self, calls, converted) ==
    [ret |-> ret, self |-> self, calls |-> calls, converted |-> converted]

-----------------------------------------------------------------------------
(* class Money(DefaultMoney) *)

\* Variant: the dict itself is stored, with no read-only wrapper.
MappingProxyType_plain(ref) == [view_of |-> ref, readonly |-> FALSE]

\* types.MappingProxyType(mapping): a read-only view of the caller's dict.
MappingProxyType(ref) == [view_of |-> ref, readonly |-> TRUE]

\* moneyed.Money.__init__: a currency given by its code is looked up.
get_currency(currency) ==
    IF currency.type = "Currency" THEN currency ELSE Currency(currency.code)

\* Money.__init__(amount, currency, format_options, decimal_places)
Money(amount, currency, format_options, decimal_places) ==
    [amount         |-> amount,
     currency       |-> get_currency(currency),
     decimal_places |-> IF decimal_places # None
                        THEN TheValue(decimal_places)
                        ELSE DECIMAL_PLACES,
     format_options |-> IF format_options # None
                        THEN Some(MappingProxyType(TheValue(format_options)))
                        ELSE None]

\* getattr(candidate, "decimal_places", None)
getattr_decimal_places(candidate) ==
    IF candidate.kind = "Money" THEN Some(candidate.obj.decimal_places) ELSE None

\* Variant: only self's decimal_places is copied, the source is not looked at.
_copy_attributes_self_only(self, source, target) ==
    [target EXCEPT !.decimal_places = self.decimal_places]

\* Variant: a candidate with no decimal_places counts with the default.
_copy_attributes_default(self, source, target) ==
    LET selection == {self.decimal_places}
                         \cup (IF source.kind = "Money"
                               THEN {source.obj.decimal_places}
                               ELSE {DECIMAL_PLACES})
    IN  [target EXCEPT !.decimal_places = MaxInt(selection)]

\* Money._copy_attributes(self, source, target): target after the call.
_copy_attributes(self, source, target) ==
    LET selection == UNION {getattr_decimal_places(candidate) :
                               candidate \in {OpMoney(self), source}}
    IN  IF selection # {}
        THEN [target EXCEPT !.decimal_places = MaxInt(selection)]
        ELSE target

\* The attribute writes of _copy_attributes applied to what the base type
\* returned: on self itself when the base type returned self.
Copied(self, source, base, calls, converted) ==
    CASE base.kind = "Money" ->
             LET t == _copy_attributes(self, source, base.obj)
             IN  Outcome(RetMoney(t, base.is_self),
                         IF base.is_self THEN t ELSE self, calls, converted)
      [] base.kind = "NotImplemented" ->
             \* NotImplemented takes no attribute
             Outcome(RetRaise("AttributeError"), self, calls, converted)
      [] OTHER -> Outcome(base, self, calls, converted)

\* getattr(settings, "AUTO_CONVERT_MONEY", False)
AUTO_CONVERT_MONEY(flag) == IF flag = "absent" THEN FALSE ELSE flag = "True"

\* djmoney.contrib.exchange.models.get_rate
get_rate(source, target) ==
    IF source.code = "USD" /\ target.code = "JPY" THEN Dec(150, 0)
    ELSE IF source.code = "JPY" /\ target.code = "USD" THEN Dec(1, 2)
    ELSE Dec(1, 0)

\* djmoney.contrib.exchange.models.convert_money
convert_money(value, currency) ==
    Money(DecMul(value.amount, get_rate(value.currency, currency)),
          currency, None, None)

\* Variant: the flag is not read, any other currency is converted.
maybe_convert_any_flag(flag, value, currency) ==
    IF value.kind # "Money"
    THEN [raised |-> TRUE, value |-> value, calls |-> <<>>]
    ELSE IF value.obj.currency # currency
         THEN [raised |-> FALSE,
               value  |-> OpMoney(convert_money(value.obj, currency)),
               calls  |-> <<"convert_money">>]
         ELSE [raised |-> FALSE, value |-> value, calls |-> <<>>]

\* maybe_convert(value, currency), reading the flag as set at the call
maybe_convert(flag, value, currency) ==
    IF ~AUTO_CONVERT_MONEY(flag)
    THEN [raised |-> FALSE, value |-> value, calls |-> <<>>]
    ELSE IF value.kind # "Money"
         THEN \* value.currency: no such attribute
              [raised |-> TRUE, value |-> value, calls |-> <<>>]
         ELSE IF value.obj.currency # currency
              THEN [raised |-> FALSE,
                    value  |-> OpMoney(convert_money(value.obj, currency)),
                    calls  |-> <<"convert_money">>]
              ELSE [raised |-> FALSE, value |-> value, calls |-> <<>>]

\* moneyed.Money.__add__
DefaultMoney_add(self, other) ==
    IF other.kind = "num" /\ other.val.c = 0
    THEN RetMoney(self, TRUE)
    ELSE IF other.kind # "Money"
         THEN RetNotImplemented
         ELSE IF self.currency = other.obj.currency
              THEN RetMoney(Money(DecAdd(self.amount, other.obj.amount),
                                  self.currency, None, None), FALSE)
              ELSE RetRaise("TypeError")

\* Variant: the operand is converted before it is tested for F.
__add__convert_first(self, other, flag) ==
    LET mc == maybe_convert(flag, other, self.currency)
    IN  IF mc.raised
        THEN Outcome(RetRaise("AttributeError"), self,
                     <<"maybe_convert">>, NoOperand)
        ELSE IF other.kind = "F"
             THEN Outcome(RetExpr("__radd__", self), self,
                          <<"maybe_convert", "F.__radd__">>, NoOperand)
             ELSE Copied(self, mc.value, DefaultMoney_add(self, mc.value),
                         <<"maybe_convert">> \o mc.calls
                             \o <<"DefaultMoney.__add__">>,
                         mc.value)

\* Money.__add__(self, other)
__add__(self, other, flag) ==
    IF other.kind = "F"
    THEN Outcome(RetExpr("__radd__", self), self, <<"F.__radd__">>, NoOperand)
    ELSE LET mc == maybe_convert(flag, other, self.currency)
         IN  IF mc.raised
             THEN Outcome(RetRaise("AttributeError"), self,
                          <<"maybe_convert">>, NoOperand)
             ELSE Copied(self, mc.value, DefaultMoney_add(self, mc.value),
                         <<"maybe_convert">> \o mc.calls
                             \o <<"DefaultMoney.__add__">>,
                         mc.value)

\* One of __pos__, __neg__, __abs__: the base type builds a new instance of
\* self's class, then the attributes of self are copied to it.
Unary(self, amount, service) ==
    Copied(self, OpMoney(self),
           RetMoney(Money(amount, self.currency, None, None), FALSE),
           <<service>>, NoOperand)

\* Money.__pos__
__pos__(self) == Unary(self, self.amount, "DefaultMoney.__pos__")

\* Money.__neg__
__neg__(self) == Unary(self, DecNeg(self.amount), "DefaultMoney.__neg__")

\* Money.__abs__
__abs__(self) == Unary(self, DecAbs(self.amount), "DefaultMoney.__abs__")

\* -other, as moneyed.Money.__sub__ evaluates it
Negated(other) ==
    IF other.kind = "Money"
    THEN OpMoney(__neg__(other.obj).ret.obj)
    ELSE OpNum(DecNeg(other.val))

\* Money.__sub__(self, other); moneyed.Money.__sub__ is self.__add__(-other),
\* which is Money.__add__ again.
__sub__(self, other, flag) ==
    IF other.kind = "F"
    THEN Outcome(RetExpr("__rsub__", self), self, <<"F.__rsub__">>, NoOperand)
    ELSE LET mc == maybe_convert(flag, other, self.currency)
         IN  IF mc.raised
             THEN Outcome(RetRaise("AttributeError"), self,
                          <<"maybe_convert">>, NoOperand)
             ELSE LET inner == __add__(self, Negated(mc.value), flag)
                      calls == <<"maybe_convert">> \o mc.calls
                                   \o <<"DefaultMoney.__sub__">> \o inner.calls
                  IN  Copied(inner.self, mc.value, inner.ret, calls, mc.value)

\* moneyed.Money.__mul__
DefaultMoney_mul(self, other) ==
    IF other.kind = "Money"
    THEN RetRaise("TypeError")
    ELSE RetMoney(Money(DecMul(self.amount, other.val),
                        self.currency, None, None), FALSE)

\* Money.__mul__(self, other)
__mul__(self, other) ==
    IF other.kind = "F"
    THEN Outcome(RetExpr("__rmul__", self), self, <<"F.__rmul__">>, NoOperand)
    ELSE Copied(self, other, DefaultMoney_mul(self, other),
                <<"DefaultMoney.__mul__">>, NoOperand)

\* moneyed.Money.__truediv__: a ratio of two Money is a Decimal.
DefaultMoney_truediv(self, other) ==
    IF other.kind = "Money"
    THEN IF self.currency # other.obj.currency
         THEN RetRaise("TypeError")
         ELSE RetDecimal(self.amount, other.obj.amount)
    ELSE RetMoney(Money(DecDivInt(self.amount, other.val.c),
                        self.currency, None, None), FALSE)

\* Money.__truediv__(self, other)
__truediv__(self, other) ==
    IF other.kind = "F"
    THEN Outcome(RetExpr("__rtruediv__", self), self,
                 <<"F.__rtruediv__">>, NoOperand)
    ELSE LET result == DefaultMoney_truediv(self, other)
             calls  == <<"DefaultMoney.__truediv__">>
         IN  IF result.kind = "Money"
             THEN Copied(self, other, result, calls, NoOperand)
             ELSE Outcome(result, self, calls, NoOperand)

\* Money.__rtruediv__(self, other)
__rtruediv__(self, other) ==
    Outcome(RetRaise("TypeError"), self, <<>>, NoOperand)

\* Money.__round__(self, n): round(Decimal, n) rounds half to even; with no n
\* it gives an int, which the constructor turns into a Decimal again.
__round__(self, n) ==
    LET amount == DecQuantize(self.amount,
                              IF n = None THEN 0 ELSE TheValue(n),
                              "ROUND_HALF_EVEN")
    IN  Copied(self, OpMoney(self),
               RetMoney(Money(amount, self.currency, None, None), FALSE),
               <<"round">>, NoOperand)

\* Money.round(self, ndigits); moneyed.Money.round quantizes to 1e-ndigits
\* with the context's rounding.
round(self, ndigits) ==
    LET amount == DecQuantize(self.amount, ndigits, "ROUND_HALF_EVEN")
    IN  Copied(self, OpMoney(self),
               RetMoney(Money(amount, self.currency, None, None), FALSE),
               <<"DefaultMoney.round">>, NoOperand)

\* moneyed.Money.__rmod__: other percent of the amount
DefaultMoney_rmod(self, other) ==
    IF other.kind = "Money"
    THEN RetRaise("TypeError")
    ELSE RetMoney(Money(DecDivInt(DecMul(other.val, self.amount), 100),
                        self.currency, None, None), FALSE)

\* Money.__rmod__(self, other)
__rmod__(self, other) ==
    Copied(self, OpMoney(self), DefaultMoney_rmod(self, other),
           <<"DefaultMoney.__rmod__">>, NoOperand)

-----------------------------------------------------------------------------
(* quantize *)

\* babel's currency_fractions table: minor-unit digits by currency code
currency_fractions ==
    [code \in {"JPY", "DEFAULT"} |-> IF code = "JPY" THEN 0 ELSE 2]

\* babel.numbers.get_currency_precision(currency): a dict lookup by the
\* currency code, a str; any other key falls back to DEFAULT.
get_currency_precision(currency) ==
    IF currency.type = "str" /\ currency.code \in DOMAIN currency_fractions
    THEN currency_fractions[currency.code]
    ELSE currency_fractions["DEFAULT"]

\* Decimal ** n for n >= 0
RECURSIVE DecPow(_, _)
DecPow(x, n) == IF n = 0 THEN Dec(1, 0) ELSE DecMul(x, DecPow(x, n - 1))

\* Money.quantize(self, exp, rounding)
quantize(self, exp, rounding) ==
    LET mode   == IF rounding = None THEN "ROUND_HALF_UP" ELSE TheValue(rounding)
        digits == get_currency_precision(self.currency)
        e      == IF exp = None THEN DecPow(Dec(1, 1), digits) ELSE TheValue(exp)
    IN  Outcome(RetMoney(Money(DecQuantize(self.amount, e.s, mode),
                               self.currency, None, None), FALSE),
                self,
                IF exp = None THEN <<"get_currency_precision">> ELSE <<>>,
                NoOperand)

-----------------------------------------------------------------------------
(* Rendering *)

EmptyDict == [k \in {} |-> ""]

\* {**defaults, **overrides}
Merge(defaults, overrides) ==
    [k \in DOMAIN defaults \cup DOMAIN overrides |->
        IF k \in DOMAIN overrides THEN overrides[k] ELSE defaults[k]]

\* mapping[key] = value
SetItem(mapping, key, value) ==
    [k \in DOMAIN mapping \cup {key} |-> IF k = key THEN value ELSE mapping[k]]

\* djmoney.settings.MONEY_FORMAT
MONEY_FORMAT == [k \in {"format", "currency_digits"} |->
                    IF k = "format" THEN "default_format" ELSE "True"]

\* settings.LANGUAGE_CODE
LANGUAGE_CODE == "en-us"

\* django.utils.translation.to_locale: en-us -> en_US
to_locale(language) ==
    CASE language = "en-us" -> "en_US"
      [] language = "pt-br" -> "pt_BR"
      [] OTHER -> language

\* get_current_locale(), with translation.get_language() as it is at the call
get_current_locale(language) ==
    to_locale(IF language # None THEN TheValue(language) ELSE LANGUAGE_CODE)

\* The mapping a Money's format_options shows: the caller's dict as it is now.
View(format_options) == d

\* Money.__str__(self): the call made to moneyed.l10n.format_money
__str__(self, language) ==
    LET merged == Merge(MONEY_FORMAT,
                        IF self.format_options # None
                        THEN View(TheValue(self.format_options))
                        ELSE EmptyDict)
        locale == get_current_locale(language)
        format_options == IF locale # ""
                          THEN SetItem(merged, "locale", locale)
                          ELSE merged
    IN  Outcome([kind |-> "str", money |-> self, options |-> format_options],
                self, <<"format_money">>, NoOperand)

\* Money.__html__(self)
__html__(self, language) ==
    LET text == __str__(self, language)
    IN  Outcome([kind |-> "SafeString", text |-> text.ret,
                 escaped |-> TRUE, nowrap |-> TRUE],
                self, text.calls \o <<"conditional_escape", "avoid_wrapping",
                                      "mark_safe">>, NoOperand)

\* format_options[key] = value through the instance: a mappingproxy refuses.
proxy_setitem(proxy, mapping, key, value) ==
    IF proxy.readonly
    THEN [raised |-> TRUE, mapping |-> mapping]
    ELSE [raised |-> FALSE, mapping |-> SetItem(mapping, key, value)]

-----------------------------------------------------------------------------
(* Inputs *)

Amounts == {Dec(15, 1), Dec(-2345, 3)}

OtherAmounts == {Dec(25, 2)}

Codes == {"USD", "JPY"}

Places == {None, Some(1), Some(4)}

OtherPlaces == {Some(1), Some(4)}

Flags == {"absent", "False", "True"}

Languages == {None, Some("de")}

Zero == OpNum(Dec(0, 0))

Two == OpNum(Dec(2, 0))

Five == OpNum(Dec(5, 0))

Exps == {None, Some(Dec(1, 1)), Some(Dec(1, 3))}

Roundings == {None, Some("ROUND_DOWN")}

NDigits == {0, 1}

CallerWrites == {<<"format", "caller_format">>}

ProxyWrites == {<<"format", "instance_format">>}

InitialDict == [k \in {"format", "locale"} |->
                   IF k = "format" THEN "own_format" ELSE "fr_FR"]

Idle == [op |-> "none"]

-----------------------------------------------------------------------------
(* The state machine *)

Init ==
    /\ DECIMAL_PLACES \in DefaultPlaces
    /\ d = InitialDict
    /\ \E amount \in Amounts, currency \in Codes, places \in Places,
          format_options \in {None, Some("d")},
          amount2 \in OtherAmounts, currency2 \in Codes,
          places2 \in OtherPlaces :
           objs = [n \in Names |->
                      IF n = "a"
                      THEN Money(amount, CodeStr(currency), format_options, places)
                      ELSE Money(amount2, CodeStr(currency2), None, places2)]
    /\ last = Idle
    /\ depth = 0

Other(name) == CHOOSE n \in Names : n # name

\* The call `op` on the object named `name` ended with outcome `out`.
Call(op, name, other, flag, args, out) ==
    /\ last = Idle
    /\ objs' = [objs EXCEPT ![name] = out.self]
    /\ last' = [op |-> op, self |-> name, before |-> objs[name],
                other |-> other, flag |-> flag, args |-> args,
                ret |-> out.ret, calls |-> out.calls,
                converted |-> out.converted]
    /\ UNCHANGED <<DECIMAL_PLACES, d, depth>>

Add ==
    \E name \in Names, flag \in Flags :
        \E other \in {OpMoney(objs[Other(name)]), Zero, Two, OpF} :
            Call("__add__", name, other, flag, <<>>,
                 __add__(objs[name], other, flag))

\* __radd__ = __add__: reached when the left operand is not a Money
RAdd ==
    \E name \in Names, flag \in Flags :
        \E other \in {Zero, Two} :
            Call("__radd__", name, other, flag, <<>>,
                 __add__(objs[name], other, flag))

Sub ==
    \E name \in Names, flag \in Flags :
        \E other \in {OpMoney(objs[Other(name)]), Zero, Two, OpF} :
            Call("__sub__", name, other, flag, <<>>,
                 __sub__(objs[name], other, flag))

Mul ==
    \E name \in Names :
        \E other \in {OpMoney(objs[Other(name)]), Two, OpF} :
            Call("__mul__", name, other, "absent", <<>>,
                 __mul__(objs[name], other))

\* __rmul__ = __mul__
RMul ==
    \E name \in Names :
        Call("__rmul__", name, Two, "absent", <<>>, __mul__(objs[name], Two))

TrueDiv ==
    \E name \in Names :
        \E other \in {OpMoney(objs[Other(name)]), Two, OpF} :
            Call("__truediv__", name, other, "absent", <<>>,
                 __truediv__(objs[name], other))

RTrueDiv ==
    \E name \in Names :
        Call("__rtruediv__", name, Two, "absent", <<>>,
             __rtruediv__(objs[name], Two))

Round ==
    \E name \in Names, n \in {None} \cup {Some(k) : k \in NDigits} :
        Call("__round__", name, NoOperand, "absent", <<n>>,
             __round__(objs[name], n))

RoundNdigits ==
    \E name \in Names, ndigits \in NDigits :
        Call("round", name, NoOperand, "absent", <<Some(ndigits)>>,
             round(objs[name], ndigits))

Pos ==
    \E name \in Names :
        Call("__pos__", name, NoOperand, "absent", <<>>, __pos__(objs[name]))

Neg ==
    \E name \in Names :
        Call("__neg__", name, NoOperand, "absent", <<>>, __neg__(objs[name]))

Abs ==
    \E name \in Names :
        Call("__abs__", name, NoOperand, "absent", <<>>, __abs__(objs[name]))

RMod ==
    \E name \in Names :
        \E other \in {OpMoney(objs[Other(name)]), Five} :
            Call("__rmod__", name, other, "absent", <<>>,
                 __rmod__(objs[name], other))

Quantize ==
    \E name \in Names, exp \in Exps, rounding \in Roundings :
        Call("quantize", name, NoOperand, "absent", <<exp, rounding>>,
             quantize(objs[name], exp, rounding))

Str ==
    \E name \in Names, language \in Languages :
        Call("__str__", name, NoOperand, "absent", <<language>>,
             __str__(objs[name], language))

Html ==
    \E name \in Names, language \in Languages :
        Call("__html__", name, NoOperand, "absent", <<language>>,
             __html__(objs[name], language))

\* The caller writes to the dict it passed as format_options of a live Money.
CallerSetItem ==
    \E w \in CallerWrites :
        /\ last = Idle
        /\ \E name \in Names : objs[name].format_options # None
        /\ d' = SetItem(d, w[1], w[2])
        /\ last' = [op |-> "caller_setitem", key |-> w[1], value |-> w[2]]
        /\ UNCHANGED <<DECIMAL_PLACES, objs, depth>>

\* A write through an instance's format_options.
ProxySetItem ==
    \E name \in Names, w \in ProxyWrites :
        /\ last = Idle
        /\ objs[name].format_options # None
        /\ LET r == proxy_setitem(TheValue(objs[name].format_options),
                                  d, w[1], w[2])
           IN  /\ d' = r.mapping
               /\ last' = [op |-> "proxy_setitem", self |-> name,
                           key |-> w[1], value |-> w[2], raised |-> r.raised]
        /\ UNCHANGED <<DECIMAL_PLACES, objs, depth>>

\* The caller binds the name a to the Money a call on a returned
\* (a = a.op(...)): the next call has the result for its operand.
Bind ==
    /\ depth < MaxChain
    /\ last.op \notin {"none", "caller_setitem", "proxy_setitem"}
    /\ last.self = "a"
    /\ last.ret.kind = "Money"
    /\ ~last.ret.is_self
    /\ objs' = [objs EXCEPT ![last.self] = last.ret.obj]
    /\ last' = Idle
    /\ depth' = depth + 1
    /\ UNCHANGED <<DECIMAL_PLACES, d>>

\* The caller drops what the last call returned.
Return ==
    /\ last # Idle
    /\ last' = Idle
    /\ UNCHANGED <<DECIMAL_PLACES, objs, d, depth>>

Next ==
    \/ Add \/ RAdd \/ Sub \/ Mul \/ RMul \/ TrueDiv \/ RTrueDiv
    \/ Round \/ RoundNdigits \/ Pos \/ Neg \/ Abs \/ RMod \/ Quantize
    \/ Str \/ Html \/ CallerSetItem \/ ProxySetItem \/ Bind \/ Return

Spec == Init /\ [][Next]_vars

-----------------------------------------------------------------------------
(* Properties *)

Called(service) == \E i \in 1..Len(last.calls) : last.calls[i] = service

IsCall == last.op \notin {"none", "caller_setitem", "proxy_setitem"}

\* The Money operands of the last call: self, and the other operand when it
\* is a Money (the converted one when maybe_convert converted it).
MoneyOperands ==
    {last.before}
        \cup (IF last.converted.kind = "Money" THEN {last.converted.obj}
              ELSE IF last.other.kind = "Money" THEN {last.other.obj}
              ELSE {})

\* C1: with auto-convert disabled, A + B and A - B of two Money of the same
\* currency return a Money whose decimal_places is the larger of the two
\* operands' decimal_places, whatever DECIMAL_PLACES is and whichever operand
\* is self.
C1_AddSubMaxPlaces ==
    (/\ last.op \in {"__add__", "__sub__"}
     /\ last.other.kind = "Money"
     /\ last.other.obj.currency = last.before.currency
     /\ ~AUTO_CONVERT_MONEY(last.flag))
        => /\ last.ret.kind = "Money"
           /\ last.ret.obj.decimal_places =
                  MaxInt({last.before.decimal_places,
                          last.other.obj.decimal_places})

\* C1 witness: a subtraction or addition of same-currency operands with
\* decimal_places 1 and 4 under a default of 2 returned decimal_places 4.
C1_Witness ==
    /\ last.op \in {"__add__", "__sub__"}
    /\ last.other.kind = "Money"
    /\ last.other.obj.currency = last.before.currency
    /\ ~AUTO_CONVERT_MONEY(last.flag)
    /\ DECIMAL_PLACES = 2
    /\ last.before.decimal_places = 1
    /\ last.other.obj.decimal_places = 4
    /\ last.ret.kind = "Money"
    /\ last.ret.obj.decimal_places = 4

\* C2: every operation that returns a Money returns one whose decimal_places
\* is the largest decimal_places of the Money operands of that step (so a
\* chain never falls back to DECIMAL_PLACES).
C2_EveryStepKeepsMaxPlaces ==
    (IsCall /\ last.ret.kind = "Money")
        => last.ret.obj.decimal_places =
               MaxInt({m.decimal_places : m \in MoneyOperands})

\* C3: __round__(n) and round(n), n >= 0, return a Money with the
\* decimal_places and the format_options of self.
C3_RoundKeepsPlacesAndFormat ==
    (last.op \in {"__round__", "round"} /\ last.args[1] # None)
        => /\ last.ret.kind = "Money"
           /\ last.ret.obj.decimal_places = last.before.decimal_places
           /\ last.ret.obj.format_options = last.before.format_options

\* C4: the options __str__ hands to format_money are MONEY_FORMAT overlaid
\* with the instance's format_options: every key of the instance's
\* format_options, "locale" included, is passed with the instance's value, and
\* every other key of MONEY_FORMAT with the default.
C4_StrInstanceOptionsWin ==
    last.op = "__str__"
        => LET own == IF last.before.format_options # None
                      THEN View(TheValue(last.before.format_options))
                      ELSE EmptyDict
               options == last.ret.options
           IN  /\ \A k \in DOMAIN own :
                      k \in DOMAIN options /\ options[k] = own[k]
               /\ \A k \in DOMAIN MONEY_FORMAT \ DOMAIN own :
                      k \in DOMAIN options /\ options[k] = MONEY_FORMAT[k]

\* What an instance's format_options shows now.
Shown(m) ==
    IF m.format_options = None
    THEN None
    ELSE Some(View(TheValue(m.format_options)))

\* C5 as stated: once a Money is constructed, what its format_options shows
\* never changes.
C5_ContentNeverChanges ==
    [][\A n \in Names :
          (objs'[n] = objs[n] /\ objs[n].format_options # None)
              => Shown(objs[n])' = Shown(objs[n])]_vars

\* C5 amended: a write through the instance's format_options is rejected and
\* changes nothing, and what the format_options of an instance shows changes
\* only when the caller writes to the dict it passed.
C5_ReadOnlyView ==
    [][/\ last'.op = "proxy_setitem" => (last'.raised /\ d' = d)
       /\ \A n \in Names :
              (/\ objs'[n] = objs[n]
               /\ objs[n].format_options # None
               /\ Shown(objs[n])' # Shown(objs[n]))
                  => /\ last'.op = "caller_setitem"
                     /\ Shown(objs[n])' = Some(d')]_vars

\* C5 witness: the caller has changed its dict, the instance shows the
\* changed content, and a write through the instance was rejected.
C5_Witness ==
    /\ last.op = "proxy_setitem"
    /\ last.raised
    /\ d # InitialDict
    /\ Shown(objs[last.self]) = Some(d)

\* C6: maybe_convert calls the conversion service exactly when the flag is
\* enabled and the currencies differ, and returns the converted value; in
\* every other case it returns the value it was given, no conversion is
\* called, and with the flag disabled a sum of different currencies goes on to
\* the base type's addition.
C6_ConvertExactlyWhenEnabledAndDifferent ==
    (/\ last.op \in {"__add__", "__radd__", "__sub__"}
     /\ last.other.kind \in {"Money", "num"}
     /\ (last.other.kind = "num" => ~AUTO_CONVERT_MONEY(last.flag)))
        => LET differs == /\ last.other.kind = "Money"
                          /\ last.other.obj.currency # last.before.currency
               enabled == AUTO_CONVERT_MONEY(last.flag)
           IN  /\ Called("convert_money") <=> (enabled /\ differs)
               /\ (enabled /\ differs)
                      => /\ last.converted.kind = "Money"
                         /\ last.converted.obj.currency = last.before.currency
                         /\ last.converted.obj.amount =
                                DecMul(last.other.obj.amount,
                                       get_rate(last.other.obj.currency,
                                                last.before.currency))
               /\ ~(enabled /\ differs) => last.converted = last.other
               /\ (~enabled /\ differs) => Called("DefaultMoney.__add__")

\* C6 witness: an addition with the flag enabled converted an operand of
\* another currency and returned a Money.
C6_Witness ==
    /\ last.op = "__add__"
    /\ last.flag = "True"
    /\ last.other.kind = "Money"
    /\ last.other.obj.currency # last.before.currency
    /\ Called("convert_money")
    /\ last.ret.kind = "Money"

\* The currency's canonical number of minor-unit digits.
CanonicalDigits(currency) ==
    IF currency.code \in DOMAIN currency_fractions
    THEN currency_fractions[currency.code]
    ELSE currency_fractions["DEFAULT"]

\* C7: quantize() with no exponent returns a Money of the same currency whose
\* amount has exactly the currency's canonical number of decimal places and,
\* with no rounding mode, is the input rounded half-up; with an exponent the
\* amount has the decimal places of the exponent.
C7_QuantizeToCurrencyDigits ==
    last.op = "quantize"
        => LET exp      == last.args[1]
               rounding == last.args[2]
               digits   == CanonicalDigits(last.before.currency)
           IN  /\ last.ret.kind = "Money"
               /\ last.ret.obj.currency = last.before.currency
               /\ exp = None => last.ret.obj.amount.s = digits
               /\ (exp = None /\ rounding = None)
                      => last.ret.obj.amount =
                             DecQuantize(last.before.amount, digits,
                                         "ROUND_HALF_UP")
               /\ exp # None => last.ret.obj.amount.s = TheValue(exp).s

\* The reflected operator of F each operator delegates to.
Reflected(op) ==
    CASE op = "__add__"     -> "__radd__"
      [] op = "__sub__"     -> "__rsub__"
      [] op = "__mul__"     -> "__rmul__"
      [] op = "__truediv__" -> "__rtruediv__"

\* C8: with an F operand, __add__, __sub__, __mul__ and __truediv__ return
\* what F's reflected operator returns for self, and call nothing else:
\* neither the base type's arithmetic nor the conversion helper, whatever
\* the auto-convert flag.
C8_FDelegation ==
    (IsCall /\ last.other.kind = "F")
        => /\ last.ret = RetExpr(Reflected(last.op), last.before)
           /\ Len(last.calls) = 1
           /\ ~Called("maybe_convert")
           /\ ~Called("convert_money")
           /\ ~Called("DefaultMoney.__add__")
           /\ ~Called("DefaultMoney.__sub__")
           /\ ~Called("DefaultMoney.__mul__")
           /\ ~Called("DefaultMoney.__truediv__")

\* C8 witness: an addition of F with the flag enabled returned F's __radd__.
C8_Witness ==
    /\ last.op = "__add__"
    /\ last.other.kind = "F"
    /\ last.flag = "True"
    /\ last.ret.kind = "Expr"
    /\ last.ret.method = "__radd__"

\* C9: m + 0 and 0 + m complete and return a Money with m's amount, currency
\* and decimal_places, for every setting of the auto-convert flag.
C9_AddZeroTotal ==
    (last.op \in {"__add__", "__radd__"} /\ last.other = Zero)
        => /\ last.ret.kind = "Money"
           /\ last.ret.obj.amount = last.before.amount
           /\ last.ret.obj.currency = last.before.currency
           /\ last.ret.obj.decimal_places = last.before.decimal_places

\* C10: no call changes a live Money (its amount, currency, decimal_places,
\* format_options) nor what its format_options shows, also when the call
\* returns self.
C10_OperandsUnchanged ==
    [][(last'.op \notin {"none", "caller_setitem", "proxy_setitem"})
          => (objs' = objs /\ d' = d)]_vars

\* C10 witness: m + 0 returned m itself, with a decimal_places below the
\* default, and m is as it was.
C10_Witness ==
    /\ last.op = "__add__"
    /\ last.other = Zero
    /\ last.ret.kind = "Money"
    /\ last.ret.is_self
    /\ last.before.decimal_places < DECIMAL_PLACES
    /\ objs[last.self] = last.before

====
